---- MODULE Spec2Model ----
(***************************************************************************)
(* Model of babelfont-fontc-build/src/lib.rs: the wasm bridge that turns a *)
(* .babelfont JSON text into TTF bytes.  The bridge exports init,          *)
(* compile_babelfont, compile_glyphs and version.  The host is             *)
(* single-threaded: one exported call runs to completion before the next   *)
(* one starts.  compile_babelfont is modelled statement by statement, one   *)
(* step per fallible stage; the other exports are one step each.            *)
(*                                                                         *)
(* serde_json, babelfont and fontc are external crates.  They are modelled *)
(* by their signatures (each returns a Result) and by their documented     *)
(* contracts: an input text is described by the defects it has, and each   *)
(* external stage rejects the defects it is responsible for.               *)
(***************************************************************************)
EXTENDS Integers, Sequences, FiniteSets, TLC

VARIABLES
    pc,              \* position inside compile_babelfont, "idle" between calls
    asked,           \* the text the host passed to the current / last compile_babelfont call
    babelfont_json,  \* the argument of the running compile_babelfont call, as an option
    font,            \* local `font` (lib.rs:22), as an option; moved out at lib.rs:26
    source,          \* local `source` (lib.rs:26), as an option; moved out at lib.rs:36
    once,            \* the Once behind console_error_panic_hook::set_once
    hook_installs,   \* how many times the panic hook has actually been set
    init_calls,      \* how many times init has been called
    pkg_version,     \* env!("CARGO_PKG_VERSION"), fixed when the crate is built
    ret,             \* what the host received from the last completed call
    trace,           \* stages invoked by the current / last compile_babelfont call
    made,            \* objects constructed by the current / last compile_babelfont call
    memo             \* history: one earlier completed compile_babelfont call (text and result)

vars == <<pc, asked, babelfont_json, font, source, once, hook_installs, init_calls,
          pkg_version, ret, trace, made, memo>>

\* The state of the module itself, as opposed to what the host holds (ret)
\* and to the history kept about the calls (asked, init_calls, trace, made, memo).
module_state == <<pc, babelfont_json, font, source, once, hook_installs, pkg_version>>

-----------------------------------------------------------------------------
(* Bounds *)

MaxName == 2
MaxInitCalls == 2

-----------------------------------------------------------------------------
(* Values *)

None == <<>>
Some(x) == <<x>>

Ok(v) == [ok |-> TRUE, val |-> v]
Err(e) == [ok |-> FALSE, err |-> e]

\* What can be wrong with an input text, by the stage that notices it.
DecodeDefects == {"syntax", "missing_field"}
AdaptDefects == {"bad_reference"}
CompileDefects == {"bad_outline", "bad_feature"}
Defects == DecodeDefects \cup AdaptDefects \cup CompileDefects

\* The caller-supplied texts: which font they describe and what is wrong with
\* them.  A text that is not JSON at all has no document structure, so no
\* other defect is attributed to it.
Texts ==
    [name : 1..MaxName, defects : {{"syntax"}}]
        \cup [name : 1..MaxName, defects : SUBSET (Defects \ {"syntax"})]

\* Cargo package versions the crate may have been built with.
Versions == {"0.1.0", "1.2.3"}

StageOrder == <<"decode", "adapt", "generate">>

NoObjects == [font |-> 0, source |-> 0, artifact |-> 0]

-----------------------------------------------------------------------------
(* External crates *)

\* Display and Debug renderings of the external error values ({} and {:?}).
Display(e) ==
    CASE e = "Syntax"        -> "expected value at line 1 column 3"
      [] e = "MissingField"  -> "missing field glyphs at line 1 column 2"
      [] e = "BadReference"  -> "glyph not found"
      [] e = "GlyphError"    -> "glyph has invalid outline"
      [] e = "FeaError"      -> "feature compilation failed"

Debug(e) ==
    CASE e = "Syntax"        -> "Error(expected value, line: 1, column: 3)"
      [] e = "MissingField"  -> "Error(missing field glyphs, line: 1, column: 2)"
      [] e = "BadReference"  -> "BadSource(GlyphNotFound)"
      [] e = "GlyphError"    -> "Frontend(GlyphError)"
      [] e = "FeaError"      -> "Backend(FeaCompileError)"

\* serde_json::from_str::<babelfont::Font>: all-or-nothing decoding.
serde_from_str(text) ==
    IF "syntax" \in text.defects THEN Err("Syntax")
    ELSE IF "missing_field" \in text.defects THEN Err("MissingField")
    ELSE Ok([name |-> text.name, defects |-> text.defects \ DecodeDefects])

\* BabelfontIrSource::new_from_memory: takes the Font by value.
new_from_memory(f) ==
    IF "bad_reference" \in f.defects THEN Err("BadReference")
    ELSE Ok([font |-> f])

FlagsDefault == {"default"}

\* The binary font: container signature, then content decided by the source
\* and by the configuration.
FontBytes(src, fl) ==
    <<0, 1, 0, 0>> \o <<src.font.name>> \o <<IF fl = FlagsDefault THEN 0 ELSE 1>>

\* fontc::generate_font(source, build_dir, fontinfo, flags, skip_features)
generate_font(src, dir, fontinfo, fl, skip_features) ==
    IF "bad_outline" \in src.font.defects THEN Err("GlyphError")
    ELSE IF "bad_feature" \in src.font.defects /\ ~skip_features THEN Err("FeaError")
    ELSE Ok(FontBytes(src, fl))


-----------------------------------------------------------------------------
(* The bridge *)

\* Nothing received: before the first call, and while a call is running.
NoReturn == [op |-> "none", res |-> Ok(<<>>)]

Init ==
    /\ pc = "idle"
    /\ asked = None
    /\ babelfont_json = None
    /\ font = None
    /\ source = None
    /\ once = FALSE
    /\ hook_installs = 0
    /\ init_calls = 0
    /\ pkg_version \in Versions
    /\ ret = NoReturn
    /\ trace = <<>>
    /\ made = NoObjects
    /\ memo = None

\* console_error_panic_hook::set_once(): sets the hook the first time only.
set_once ==
    /\ once' = TRUE
    /\ hook_installs' = IF once THEN hook_installs ELSE hook_installs + 1

\* Faulty variant of init: std::panic::set_hook called directly, so that every
\* call installs the hook again.
init_set_hook ==
    /\ pc = "idle"
    /\ init_calls < MaxInitCalls
    /\ init_calls' = init_calls + 1
    /\ once' = TRUE
    /\ hook_installs' = hook_installs + 1
    /\ ret' = [op |-> "init", res |-> Ok(<<>>)]
    /\ UNCHANGED <<pc, asked, babelfont_json, font, source, pkg_version,
                   trace, made, memo>>

\* pub fn init()
init ==
    /\ pc = "idle"
    /\ init_calls < MaxInitCalls
    /\ init_calls' = init_calls + 1
    /\ set_once
    /\ ret' = [op |-> "init", res |-> Ok(<<>>)]
    /\ UNCHANGED <<pc, asked, babelfont_json, font, source, pkg_version,
                   trace, made, memo>>

\* Faulty variant of the entry: after a failed call the module keeps working on
\* the text that failed instead of the one it is given.
compile_babelfont_sticky(text) ==
    /\ pc = "idle"
    /\ pc' = "decode"
    /\ asked' = Some(text)
    /\ babelfont_json' = IF ret.op = "compile_babelfont" /\ ~ret.res.ok
                         THEN asked ELSE Some(text)
    /\ trace' = <<>>
    /\ made' = NoObjects
    /\ ret' = NoReturn
    /\ memo' \in {memo} \cup
                 (IF ret.op = "compile_babelfont"
                  THEN {Some([arg |-> asked[1], res |-> ret.res])} ELSE {})
    /\ UNCHANGED <<font, source, once, hook_installs, init_calls, pkg_version>>

\* Entry of compile_babelfont(babelfont_json): the host hands over the text.
compile_babelfont(text) ==
    /\ pc = "idle"
    /\ pc' = "decode"
    /\ asked' = Some(text)
    /\ babelfont_json' = Some(text)
    /\ trace' = <<>>
    /\ made' = NoObjects
    /\ ret' = NoReturn
    /\ memo' \in {memo} \cup
                 (IF ret.op = "compile_babelfont"
                  THEN {Some([arg |-> asked[1], res |-> ret.res])} ELSE {})
    /\ UNCHANGED <<font, source, once, hook_installs, init_calls, pkg_version>>

\* Faulty variant of the return: the document and the handle are kept (cached)
\* instead of dropped.
Return_retaining(r) ==
    /\ pc' = "idle"
    /\ ret' = [op |-> "compile_babelfont", res |-> r]
    /\ babelfont_json' = None
    /\ UNCHANGED <<font, source>>

\* Leaving compile_babelfont with result r: the locals are dropped and the
\* host receives r.
Return(r) ==
    /\ pc' = "idle"
    /\ ret' = [op |-> "compile_babelfont", res |-> r]
    /\ babelfont_json' = None
    /\ font' = None
    /\ source' = None

\* Faulty variant of the decode step: a text that does not decode is replaced
\* by an empty font (unwrap_or_default) and the call goes on.
StepDecode_lenient ==
    /\ pc = "decode"
    /\ LET r == serde_from_str(babelfont_json[1]) IN
        /\ trace' = Append(trace, [stage |-> "decode", args |-> <<babelfont_json[1]>>,
                                   res |-> r])
        /\ font' = Some(IF r.ok THEN r.val ELSE [name |-> 1, defects |-> {}])
        /\ made' = [made EXCEPT !.font = @ + 1]
        /\ pc' = "adapt"
        /\ UNCHANGED <<babelfont_json, source, ret>>
    /\ UNCHANGED <<asked, once, hook_installs, init_calls, pkg_version, memo>>

\* let font: babelfont::Font = serde_json::from_str(babelfont_json)
\*     .map_err(|e| JsValue::from_str(&format!("JSON parse error: {}", e)))?;
StepDecode ==
    /\ pc = "decode"
    /\ LET r == serde_from_str(babelfont_json[1]) IN
        /\ trace' = Append(trace, [stage |-> "decode", args |-> <<babelfont_json[1]>>,
                                   res |-> r])
        /\ IF r.ok
           THEN /\ font' = Some(r.val)
                /\ made' = [made EXCEPT !.font = @ + 1]
                /\ pc' = "adapt"
                /\ UNCHANGED <<babelfont_json, source, ret>>
           ELSE /\ Return(Err("JSON parse error: " \o Display(r.err)))
                /\ UNCHANGED made
    /\ UNCHANGED <<asked, once, hook_installs, init_calls, pkg_version, memo>>

\* Faulty variant of the adapt step: a failed adaptation is tried again.
StepAdapt_retry ==
    /\ pc = "adapt"
    /\ LET r == new_from_memory(font[1]) IN
        /\ trace' = Append(trace, [stage |-> "adapt", args |-> <<font[1]>>, res |-> r])
        /\ IF r.ok
           THEN /\ source' = Some(r.val)
                /\ font' = None
                /\ made' = [made EXCEPT !.source = @ + 1]
                /\ pc' = "generate"
                /\ UNCHANGED <<babelfont_json, ret>>
           ELSE /\ Len(trace) < 4
                /\ UNCHANGED <<pc, babelfont_json, font, source, ret, made>>
    /\ UNCHANGED <<asked, once, hook_installs, init_calls, pkg_version, memo>>

\* let source = BabelfontIrSource::new_from_memory(font)
\*     .map_err(|e| JsValue::from_str(&format!("Failed to create IR source: {}", e)))?;
StepAdapt ==
    /\ pc = "adapt"
    /\ LET r == new_from_memory(font[1]) IN
        /\ trace' = Append(trace, [stage |-> "adapt", args |-> <<font[1]>>, res |-> r])
        /\ IF r.ok
           THEN /\ source' = Some(r.val)
                /\ font' = None
                /\ made' = [made EXCEPT !.source = @ + 1]
                /\ pc' = "generate"
                /\ UNCHANGED <<babelfont_json, ret>>
           ELSE /\ Return(Err("Failed to create IR source: " \o Display(r.err)))
                /\ UNCHANGED made
    /\ UNCHANGED <<asked, once, hook_installs, init_calls, pkg_version, memo>>

\* let build_dir = std::path::Path::new("/tmp/fontc_build");
build_dir == "/tmp/fontc_build"

\* Faulty variant of the configuration: debug output is switched on as long as
\* the panic hook has not been installed.
flags_by_hook == IF once THEN FlagsDefault ELSE {"default", "emit_debug"}

\* let flags = fontir::orchestration::Flags::default();
flags == FlagsDefault

\* Faulty variant of the generate step: a pipeline failure is answered with the
\* bytes written so far (unwrap_or) instead of an error.
StepGenerate_partial ==
    /\ pc = "generate"
    /\ LET r == generate_font(source[1], build_dir, None, flags, FALSE) IN
        /\ trace' = Append(trace, [stage |-> "generate",
                                   args |-> <<source[1], build_dir, None, flags, FALSE>>,
                                   res |-> r])
        /\ IF r.ok
           THEN /\ Return(Ok(r.val))
                /\ made' = [made EXCEPT !.artifact = @ + 1]
           ELSE /\ Return(Ok(<<0, 1, 0, 0>>))
                /\ UNCHANGED made
    /\ UNCHANGED <<asked, once, hook_installs, init_calls, pkg_version, memo>>

\* Faulty variant of the generate step: the pipeline error is rendered with {}
\* like the other two stages, not with {:?}.
StepGenerate_display ==
    /\ pc = "generate"
    /\ LET r == generate_font(source[1], build_dir, None, flags, FALSE) IN
        /\ trace' = Append(trace, [stage |-> "generate",
                                   args |-> <<source[1], build_dir, None, flags, FALSE>>,
                                   res |-> r])
        /\ IF r.ok
           THEN /\ Return(Ok(r.val))
                /\ made' = [made EXCEPT !.artifact = @ + 1]
           ELSE /\ Return(Err("Compilation failed: " \o Display(r.err)))
                /\ UNCHANGED made
    /\ UNCHANGED <<asked, once, hook_installs, init_calls, pkg_version, memo>>

\* let compiled_font = fontc::generate_font(Box::new(source), build_dir, None, flags, false)
\*     .map_err(|e| JsValue::from_str(&format!("Compilation failed: {:?}", e)))?;
\* Ok(compiled_font)
StepGenerate ==
    /\ pc = "generate"
    /\ LET r == generate_font(source[1], build_dir, None, flags, FALSE) IN
        /\ trace' = Append(trace, [stage |-> "generate",
                                   args |-> <<source[1], build_dir, None, flags, FALSE>>,
                                   res |-> r])
        /\ IF r.ok
           THEN /\ Return(Ok(r.val))
                /\ made' = [made EXCEPT !.artifact = @ + 1]
           ELSE /\ Return(Err("Compilation failed: " \o Debug(r.err)))
                /\ UNCHANGED made
    /\ UNCHANGED <<asked, once, hook_installs, init_calls, pkg_version, memo>>

\* Faulty variant of compile_glyphs: the argument is parsed before the
\* redirection is answered, and a text that does not parse is reported as such.
compile_glyphs_parsing(text) ==
    /\ pc = "idle"
    /\ LET r == serde_from_str(text) IN
        ret' = [op |-> "compile_glyphs",
                res |-> IF r.ok THEN Err("Please use compile_babelfont() instead.")
                        ELSE Err("JSON parse error: " \o Display(r.err))]
    /\ UNCHANGED <<pc, asked, babelfont_json, font, source, once, hook_installs,
                   init_calls, pkg_version, trace, made, memo>>

\* pub fn compile_glyphs(_glyphs_json: &str) -> Result<Vec<u8>, JsValue>
compile_glyphs(text) ==
    /\ pc = "idle"
    /\ ret' = [op |-> "compile_glyphs",
               res |-> Err("Please use compile_babelfont() instead.")]
    /\ UNCHANGED <<pc, asked, babelfont_json, font, source, once, hook_installs,
                   init_calls, pkg_version, trace, made, memo>>

\* Faulty variant of version: the version number is written out in the string
\* instead of taken from the package.
version_hardcoded ==
    /\ pc = "idle"
    /\ ret' = [op |-> "version", res |-> Ok("babelfont-fontc-web v0.1.0")]
    /\ UNCHANGED <<pc, asked, babelfont_json, font, source, once, hook_installs,
                   init_calls, pkg_version, trace, made, memo>>

\* pub fn version() -> String
version ==
    /\ pc = "idle"
    /\ ret' = [op |-> "version", res |-> Ok("babelfont-fontc-web v" \o pkg_version)]
    /\ UNCHANGED <<pc, asked, babelfont_json, font, source, once, hook_installs,
                   init_calls, pkg_version, trace, made, memo>>

Next ==
    \/ init
    \/ \E text \in Texts : compile_babelfont(text)
    \/ StepDecode
    \/ StepAdapt
    \/ StepGenerate
    \/ \E text \in Texts : compile_glyphs(text)
    \/ version

Spec == Init /\ [][Next]_vars

-----------------------------------------------------------------------------
(* Vocabulary of the properties *)

\* A compile_babelfont call has returned and nothing was called since.
Returned == pc = "idle" /\ ret.op = "compile_babelfont"

AllOk(n) == \A i \in 1..n : trace[i].res.ok

StartsWith(s, prefix) == Len(s) >= Len(prefix) /\ SubSeq(s, 1, Len(prefix)) = prefix

\* What a freshly loaded module returns for a text: the three stages composed,
\* with the messages of lib.rs:23, 27 and 41.
Fresh(text) ==
    LET d == serde_from_str(text) IN
    IF ~d.ok THEN Err("JSON parse error: " \o Display(d.err))
    ELSE LET a == new_from_memory(d.val) IN
         IF ~a.ok THEN Err("Failed to create IR source: " \o Display(a.err))
         ELSE LET g == generate_font(a.val, "/tmp/fontc_build", None, FlagsDefault, FALSE) IN
              IF ~g.ok THEN Err("Compilation failed: " \o Debug(g.err))
              ELSE Ok(g.val)

-----------------------------------------------------------------------------
(* C1 *)

\* C1: within one compile_babelfont call the stages are invoked in the order
\* decode, adapt, generate, each at most once; a stage is invoked only after
\* every earlier stage of the call succeeded; once a stage has failed the call
\* has returned and no later stage is invoked; a call returns only after a
\* failing stage or after all three.
C1_StagesInOrder ==
    /\ Len(trace) <= Len(StageOrder)
    /\ \A i \in 1..Len(trace) : trace[i].stage = StageOrder[i]
    /\ AllOk(Len(trace) - 1)
    /\ (Len(trace) > 0 /\ ~trace[Len(trace)].res.ok) => pc = "idle"
    /\ pc = "decode" => Len(trace) = 0
    /\ pc = "adapt" => Len(trace) = 1
    /\ pc = "generate" => Len(trace) = 2
    /\ Returned => /\ Len(trace) >= 1
                   /\ trace[Len(trace)].res.ok => Len(trace) = Len(StageOrder)

\* A call that decoded, failed in the adapter and returned without reaching fontc.
C1_Witness ==
    /\ Returned
    /\ Len(trace) = 2
    /\ trace[1].res.ok
    /\ ~trace[2].res.ok

-----------------------------------------------------------------------------
(* C2 *)

\* C2: a running call can always take its next step (and takes at most three,
\* by the length of the trace), and a returned call has exactly one of two
\* outcomes: Ok(bytes) exactly when all three stages succeeded, the bytes being
\* the orchestrator's own output; otherwise Err(message) carrying a string and
\* no bytes, no artifact having been produced.
C2_OkIffAllStagesOk ==
    /\ pc # "idle" => /\ ENABLED (StepDecode \/ StepAdapt \/ StepGenerate)
                      /\ Len(trace) < Len(StageOrder)
    /\ Returned =>
        /\ ret.res.ok <=> (Len(trace) = Len(StageOrder) /\ AllOk(Len(trace)))
        /\ ret.res.ok => /\ DOMAIN ret.res = {"ok", "val"}
                         /\ ret.res.val = trace[Len(StageOrder)].res.val
                         /\ made.artifact = 1
        /\ ~ret.res.ok => /\ DOMAIN ret.res = {"ok", "err"}
                          /\ Len(ret.res.err) > 0
                          /\ made.artifact = 0

\* A call that failed late, in the orchestrator, after decoding and adapting.
C2_Witness ==
    /\ Returned
    /\ Len(trace) = 3
    /\ ~trace[3].res.ok
    /\ ~ret.res.ok

-----------------------------------------------------------------------------
(* C3 *)

\* C3: every compile_glyphs call, whatever its argument and whatever was
\* called before, returns the error "Please use compile_babelfont() instead.",
\* invokes no stage (the stage trace and the constructed-object counts are
\* untouched, no local is populated) and hands over no bytes.
C3_GlyphsAlwaysRedirects ==
    [][(\E text \in Texts : compile_glyphs(text)) =>
          /\ ret' = [op |-> "compile_glyphs",
                     res |-> Err("Please use compile_babelfont() instead.")]
          /\ UNCHANGED <<trace, made, asked, memo>>
          /\ UNCHANGED module_state]_vars

\* compile_glyphs has answered after a compile_babelfont call that succeeded
\* and one before it that failed.
C3_Witness ==
    /\ ret.op = "compile_glyphs"
    /\ ~ret.res.ok
    /\ Len(trace) = 3 /\ trace[3].res.ok
    /\ memo # None /\ ~memo[1].res.ok

-----------------------------------------------------------------------------
(* C4 *)

\* C4: the outcome of a compile_babelfont call is the one a freshly loaded
\* module gives for the same text, whatever was called before; and it equals
\* the outcome of any earlier call on the same text.
C4_NoResidualState ==
    Returned =>
        /\ ret.res = Fresh(asked[1])
        /\ (memo # None /\ memo[1].arg = asked[1]) => memo[1].res = ret.res

\* A valid text compiled successfully after an earlier call failed on another text.
C4_Witness ==
    /\ Returned
    /\ ret.res.ok
    /\ memo # None
    /\ ~memo[1].res.ok
    /\ memo[1].arg # asked[1]
    /\ init_calls > 0

-----------------------------------------------------------------------------
(* C5 *)

\* C5: every invocation of fontc::generate_font is made with the build
\* directory "/tmp/fontc_build", no font info, Flags::default() and
\* skip_features = false; and a valid text compiled twice gives the same bytes.
C5_Deterministic ==
    /\ \A i \in 1..Len(trace) :
          trace[i].stage = "generate" =>
              /\ trace[i].args[2] = "/tmp/fontc_build"
              /\ trace[i].args[3] = None
              /\ trace[i].args[4] = FlagsDefault
              /\ trace[i].args[5] = FALSE
    /\ (Returned /\ ret.res.ok /\ memo # None /\ memo[1].arg = asked[1]) =>
          /\ memo[1].res.ok
          /\ memo[1].res.val = ret.res.val

\* The same valid text has been compiled in an earlier call and again now.
C5_Witness ==
    /\ Returned
    /\ ret.res.ok
    /\ memo # None
    /\ memo[1].arg = asked[1]
    /\ memo[1].res.ok

-----------------------------------------------------------------------------
(* C6 *)

\* The last call failed in fontc::generate_font.
FailedInPipeline ==
    /\ Returned
    /\ Len(trace) = 3
    /\ ~trace[3].res.ok

\* C6 as stated: when the pipeline fails, the message handed to the host is the
\* pipeline's diagnostic text itself, unaltered (in either of its renderings).
C6_Verbatim ==
    FailedInPipeline =>
        ret.res.err \in {Display(trace[3].res.err), Debug(trace[3].res.err)}

\* C6, amended: when the pipeline fails, the message handed to the host is the
\* fixed text "Compilation failed: " followed by the Debug rendering of the
\* pipeline's error, whichever error of the pipeline it is.
C6_PrefixedDebug ==
    FailedInPipeline =>
        /\ ~ret.res.ok
        /\ ret.res.err = "Compilation failed: " \o Debug(trace[3].res.err)

\* The pipeline failed in its feature compilation and the call has returned.
C6_Witness ==
    /\ FailedInPipeline
    /\ trace[3].res.err = "FeaError"

-----------------------------------------------------------------------------
(* C7 *)

StagePrefix(stage) ==
    CASE stage = "decode"   -> "JSON parse error: "
      [] stage = "adapt"    -> "Failed to create IR source: "
      [] stage = "generate" -> "Compilation failed: "

\* C7: a text that is not valid JSON, or that misses a required field, makes
\* the call fail with a "JSON parse error: " message after the decoder alone
\* has run, no object having been constructed and no bytes returned; and the
\* message of any failed call starts with the text of the stage that failed,
\* which is the first stage to reject the input, and with no other stage's.
C7_FirstFailingStage ==
    Returned =>
        /\ asked[1].defects \cap DecodeDefects # {} =>
              /\ ~ret.res.ok
              /\ StartsWith(ret.res.err, "JSON parse error: ")
              /\ Len(trace) = 1
              /\ made = NoObjects
        /\ ~ret.res.ok =>
              /\ StartsWith(ret.res.err, StagePrefix(trace[Len(trace)].stage))
              /\ \A st \in {"decode", "adapt", "generate"} \ {trace[Len(trace)].stage} :
                    ~StartsWith(ret.res.err, StagePrefix(st))
              /\ trace[Len(trace)].stage =
                    IF asked[1].defects \cap DecodeDefects # {} THEN "decode"
                    ELSE IF asked[1].defects \cap AdaptDefects # {} THEN "adapt"
                    ELSE "generate"

\* A JSON text that misses a required field and would also be rejected by the
\* adapter and by the pipeline has been answered.
C7_Witness ==
    /\ Returned
    /\ asked[1].defects = {"missing_field", "bad_reference", "bad_outline"}

-----------------------------------------------------------------------------
(* C8 *)

\* C8: the hook is installed by the first init and only by it: a later init
\* changes nothing in the module, no step ever lowers the installation count or
\* resets the Once, no step other than init touches either, init touches
\* nothing else in the module, and the count is 1 exactly when init has run.
C8_InstallOnce ==
    /\ [](hook_installs = (IF init_calls > 0 THEN 1 ELSE 0) /\ once = (init_calls > 0))
    /\ [][/\ hook_installs' >= hook_installs
          /\ once => once'
          /\ (init /\ once) => UNCHANGED module_state
          /\ (init /\ ~once) => hook_installs' = 1 /\ once'
          /\ init => UNCHANGED <<pc, babelfont_json, font, source, pkg_version>>
          /\ init_calls' = init_calls => UNCHANGED <<once, hook_installs>>]_vars

\* init has been called a second time, after a compile_babelfont call.
C8_Witness ==
    /\ init_calls = 2
    /\ ret.op = "init"
    /\ hook_installs = 1
    /\ Len(trace) > 0

-----------------------------------------------------------------------------
(* C9 *)

\* C9 as stated: a compile_babelfont call constructs exactly one document,
\* exactly one handle and at most one artifact.
C9_ExactlyOne ==
    Returned =>
        /\ made.font = 1
        /\ made.source = 1
        /\ made.artifact <= 1

\* C9, amended: a call constructs at most one document, at most one handle and
\* at most one artifact: a document exactly when decoding succeeded, a handle
\* exactly when adaptation succeeded, an artifact exactly when the call returns
\* Ok.  At most one of document and handle is held at a time, only inside a
\* call, and between calls the module holds neither of them nor the text.
C9_AtMostOne ==
    /\ made.font <= 1 /\ made.source <= 1 /\ made.artifact <= 1
    /\ made.font = 1 <=> (Len(trace) >= 1 /\ trace[1].res.ok)
    /\ made.source = 1 <=> (Len(trace) >= 2 /\ trace[2].res.ok)
    /\ Len(font) + Len(source) <= 1
    /\ font # None => pc = "adapt"
    /\ source # None => pc = "generate"
    /\ pc = "idle" => font = None /\ source = None /\ babelfont_json = None
    /\ Returned => (made.artifact = 1 <=> ret.res.ok)

\* A call on a text that does not decode has returned: no document was made.
C9_Witness ==
    /\ Returned
    /\ made.font = 0
    /\ ~trace[1].res.ok

-----------------------------------------------------------------------------
(* C10 *)

\* C10: every version call returns the non-empty string
\* "babelfont-fontc-web v" followed by the package version the crate was built
\* with, changes nothing in the module or in the history of the calls, and can
\* be made whenever no call is running; the package version never changes.
C10_VersionPure ==
    /\ [](pc = "idle" => ENABLED version)
    /\ [][/\ pkg_version' = pkg_version
          /\ version =>
                /\ ret'.op = "version"
                /\ ret'.res = Ok("babelfont-fontc-web v" \o pkg_version)
                /\ Len(ret'.res.val) > Len("babelfont-fontc-web v")
                /\ UNCHANGED module_state
                /\ UNCHANGED <<asked, init_calls, trace, made, memo>>]_vars

\* version has answered for a build of package version 1.2.3, after a failed
\* compile_babelfont call and before any init.
C10_Witness ==
    /\ ret.op = "version"
    /\ ret.res.val = "babelfont-fontc-web v1.2.3"
    /\ init_calls = 0
    /\ Len(trace) = 1 /\ ~trace[1].res.ok

====
